---- MODULE Spec2Model ----
(***************************************************************************)
(* Model of isomer.robot: the RemoteControlManager (rcmanager.py), which   *)
(* arbitrates the single remote controlling client, and the Machineroom    *)
(* (machineroom.py), which turns control updates into serial frames.       *)
(*                                                                         *)
(* Both are circuits components: every handler runs to completion on one   *)
(* thread, and fireEvent() queues the fired event behind the ones already  *)
(* waiting.  One action below is one handler run.                          *)
(*                                                                         *)
(* Conventions                                                             *)
(*  - a byte string is a sequence of numbers 0..255;                       *)
(*  - a raw axis value is the number n standing for n / RawDen, so that    *)
(*    raw * 128 is exact in floating point and int() is a truncation;      *)
(*  - the keys of the dict _values are strings: the int key 1 is "1", the  *)
(*    str key 'machine' is "machine" (Python keeps the two apart);         *)
(*  - sent and written hold what the last handler run sent to clients and  *)
(*    fired as write events to the port (delivered in FIFO order).         *)
(***************************************************************************)
EXTENDS Integers, Sequences, FiniteSets, TLC

VARIABLES
    remote_controller,  \* RemoteControlManager.remote_controller
    sent,               \* send(...) events fired by the last handler run
    mrQueue,            \* control_update events fired to "machineroom", not yet handled
    _values,            \* Machineroom._values
    _serial_open,       \* Machineroom._serial_open
    maestro,            \* Machineroom.maestro
    written,            \* write(...) events fired to "port" by the last handler run
    lastOp,             \* history: the event handled last
    link,               \* history: the serial link itself: "never", "open", "closed"
    lastSent,           \* history: channel -> value byte of the last frame written for it
    active              \* history: clients granted control and not since released/disconnected

vars == <<remote_controller, sent, mrQueue, _values, _serial_open, maestro,
          written, lastOp, link, lastSent, active>>


-----------------------------------------------------------------------------
(* Bounds and input domains *)

MaxQueue == 1

None == "None"
Clients == {"A", "B"}

AxisScale == 128
AxisCenter == 128
ByteMax == 255
PinThreshold == 127
FrameLen == 3
\* raw axis values are counted in steps of 1/512, a quarter of a scale step
RawDen == 4 * AxisScale

\* raw axis values n / RawDen: -1/128 (in range) and 2 (out of range)
AxisInputs == {-4, 2 * RawDen}
\* raw button values, both on the same side of the pin threshold
ButtonInputs == {200, 255}
\* controlvalue of a direct machine / rudder / pump request
DirectValues == {300}
\* a value randint(0, 255) may draw
PingValues == {255}

\* The control updates clients send.  on_control_update returns at the first
\* axis out of range and reads nothing after it, so the values after such an
\* axis are fixed to the first of their kind: one update stands for all that
\* differ only there.
Unread(d) ==
    /\ (d.axes[1] > RawDen => d.axes[2] = -4)
    /\ ((d.axes[1] > RawDen \/ d.axes[2] > RawDen) => d.buttons[3] = 200)

ControlData ==
    {d \in [axes : [{1, 2} -> AxisInputs], buttons : [{3} -> ButtonInputs]] : Unread(d)}

-----------------------------------------------------------------------------
(* Python helpers *)

Min2(a, b) == IF a <= b THEN a ELSE b

\* int(x) for x = a / b, b > 0: truncation toward zero
TruncDiv(a, b) == IF a >= 0 THEN a \div b ELSE -((-a) \div b)

\* d[k] = v on a dict
DictSet(d, k, v) == [x \in (DOMAIN d) \cup {k} |-> IF x = k THEN v ELSE d[x]]

\* the dict key of an int channel
IntKey(ch) == ToString(ch)

\* truthiness of remote_controller: None is falsy, a client uuid is a non-empty string
Truthy(x) == x # None

-----------------------------------------------------------------------------
(* Machineroom: class attributes and configuration *)

servo == <<115>>
pin == <<112>>
version == <<118>>
message == <<109>>
sep == <<44>>
terminator == <<13>>

hello_on == <<108, 44, 49>>
hello_off == <<108, 44, 48>>
greeting == <<109, 44, 72, 70, 79, 83, 32, 67, 111, 110, 116, 114, 111, 108>>

targets == [machine |-> 1, rudder |-> 0, pump |-> 2]

controller_mapping ==
    [axes |-> [k \in {1, 2} |->
                  IF k = 1 THEN [name |-> "machine", flags |-> {"inverted"}]
                           ELSE [name |-> "rudder", flags |-> {}]],
     buttons |-> [k \in {3} |-> [name |-> "pump"]]]

AxisKeys == <<1, 2>>
ButtonKeys == <<3>>

_rudder_channel == 0
_machine_channel == 1
_pump_channel == 2

InitValues == [k \in {IntKey(targets[n]) : n \in DOMAIN targets} |-> 0]

-----------------------------------------------------------------------------
(* Machineroom: command encoding.  Each operator yields the frames the call *)
(* fires as write events, given the _serial_open and maestro it runs under. *)

\* mutant: _send_command without the _serial_open check
SendCommand_Unchecked(open, m, command) ==
    LET cmd == IF ~m THEN command \o terminator ELSE command
    IN  IF Len(cmd) # FrameLen THEN <<>> ELSE <<cmd>>

SendCommand(open, m, command) ==
    IF ~open THEN <<>>
    ELSE LET cmd == IF ~m THEN command \o terminator ELSE command
         IN  IF Len(cmd) # FrameLen THEN <<>> ELSE <<cmd>>

\* bytes([value]) raises ValueError for a value outside 0..255; _handle_servo
\* reaches it unclamped only in delimited mode.  The handler run ends there.
ServoRaises(m, value) == ~m /\ value \notin 0..ByteMax

\* mutant: _handle_servo without min(value, 255)
HandleServo_NoClamp(open, m, channel, value) ==
    IF m THEN SendCommand(open, m, <<255, channel, value>>)
    ELSE SendCommand(open, m, servo \o sep \o <<channel>> \o sep \o <<value>>)

HandleServo(open, m, channel, value) ==
    IF m THEN SendCommand(open, m, <<255, channel, Min2(value, ByteMax)>>)
    ELSE SendCommand(open, m, servo \o sep \o <<channel>> \o sep \o <<value>>)

\* mutant: the pin goes high only above the threshold
SetDigitalPin_Above(open, m, p, value) ==
    LET mode == IF value > PinThreshold THEN 255 ELSE 0
    IN  IF ~m THEN SendCommand(open, m, pin \o sep \o <<p>> \o sep \o <<mode>>)
        ELSE HandleServo(open, m, p, mode)

SetDigitalPin(open, m, p, value) ==
    LET mode == IF value >= PinThreshold THEN 255 ELSE 0
    IN  IF ~m THEN SendCommand(open, m, pin \o sep \o <<p>> \o sep \o <<mode>>)
        ELSE HandleServo(open, m, p, mode)

-----------------------------------------------------------------------------
(* Machineroom.on_control_update: the two loops, run over a record          *)
(* [vals, out, returned]: the dict _values, the frames fired so far, and    *)
(* whether the handler has returned.                                        *)

\* mutant: floor division in place of int()'s truncation toward zero
NewAxisValue_Floor(raw_value, item) ==
    IF "inverted" \in item.flags
    THEN Min2(AxisCenter - ((raw_value * AxisScale) \div RawDen), ByteMax)
    ELSE Min2(AxisCenter + ((raw_value * AxisScale) \div RawDen), ByteMax)

\* mutant: the axis value without min(..., 255)
NewAxisValue_NoMin(raw_value, item) ==
    IF "inverted" \in item.flags
    THEN AxisCenter - TruncDiv(raw_value * AxisScale, RawDen)
    ELSE AxisCenter + TruncDiv(raw_value * AxisScale, RawDen)

NewAxisValue(raw_value, item) ==
    IF "inverted" \in item.flags
    THEN Min2(AxisCenter - TruncDiv(raw_value * AxisScale, RawDen), ByteMax)
    ELSE Min2(AxisCenter + TruncDiv(raw_value * AxisScale, RawDen), ByteMax)

OutOfRange(raw_value) == raw_value < -RawDen \/ raw_value > RawDen

AxisBody(st, key, controldata, open, m) ==
    LET item == controller_mapping.axes[key]
        raw_value == controldata.axes[key]
        new_value == NewAxisValue(raw_value, item)
        target == targets[item.name]
    IN  IF st.returned THEN st
        ELSE IF OutOfRange(raw_value) THEN [st EXCEPT !.returned = TRUE]
        ELSE IF st.vals[IntKey(target)] # new_value
             THEN [st EXCEPT !.out = @ \o HandleServo(open, m, target, new_value),
                             !.vals = DictSet(@, IntKey(target), new_value)]
             ELSE st

ButtonBody(st, key, controldata, open, m) ==
    LET item == controller_mapping.buttons[key]
        new_value == controldata.buttons[key]
        target == targets[item.name]
    IN  IF st.returned THEN st
        ELSE IF st.vals[IntKey(target)] # new_value
             THEN [st EXCEPT !.out = @ \o SetDigitalPin(open, m, target, new_value),
                             !.vals = DictSet(@, IntKey(target), new_value)]
             ELSE st

RECURSIVE AxesLoop(_, _, _, _, _)
AxesLoop(st, keys, controldata, open, m) ==
    IF keys = <<>> THEN st
    ELSE AxesLoop(AxisBody(st, Head(keys), controldata, open, m),
                  Tail(keys), controldata, open, m)

RECURSIVE ButtonsLoop(_, _, _, _, _)
ButtonsLoop(st, keys, controldata, open, m) ==
    IF keys = <<>> THEN st
    ELSE ButtonsLoop(ButtonBody(st, Head(keys), controldata, open, m),
                     Tail(keys), controldata, open, m)

ControlUpdate(vals, controldata, open, m) ==
    ButtonsLoop(AxesLoop([vals |-> vals, out |-> <<>>, returned |-> FALSE],
                         AxisKeys, controldata, open, m),
                ButtonKeys, controldata, open, m)

-----------------------------------------------------------------------------
(* History *)

\* the event handled last: its name, its client (None for a machineroom event)
\* and the branch it took, named by the line the branch logs
Op(name, client, note) == [op |-> name, client |-> client, note |-> note]

\* every frame that reaches the port has FrameLen bytes: marker, channel, value
RECURSIVE RecordFrames(_, _)
RecordFrames(ls, frames) ==
    IF frames = <<>> THEN ls
    ELSE RecordFrames(DictSet(ls, Head(frames)[2], Head(frames)[3]), Tail(frames))

Reply(client, action, data) ==
    [to |-> client, component |-> "isomer.robot.rcmanager",
     action |-> action, data |-> data]

-----------------------------------------------------------------------------
(* State after construction *)

Init ==
    /\ remote_controller = None
    /\ sent = <<>>
    /\ mrQueue = <<>>
    /\ _values = InitValues
    /\ _serial_open = FALSE
    /\ maestro = TRUE
    /\ written = <<>>
    /\ lastOp = Op("init", None, None)
    /\ link = "never"
    /\ lastSent = <<>>
    /\ active = {}

-----------------------------------------------------------------------------
(* RemoteControlManager handlers *)

\* mutant: the disconnect of the holder does not clear remote_controller
ClientDisconnect_Keep(c) ==
    /\ remote_controller' = remote_controller
    /\ sent' = <<>>
    /\ active' = active \ {c}
    /\ lastOp' = Op("clientdisconnect", c,
                  IF c = remote_controller THEN "Remote controller disconnected!" ELSE None)
    /\ written' = <<>>
    /\ UNCHANGED <<mrQueue, _values, _serial_open, maestro, link, lastSent>>

ClientDisconnect(c) ==
    /\ remote_controller' = IF c = remote_controller THEN None ELSE remote_controller
    /\ sent' = <<>>
    /\ active' = active \ {c}
    /\ lastOp' = Op("clientdisconnect", c,
                  IF c = remote_controller THEN "Remote controller disconnected!" ELSE None)
    /\ written' = <<>>
    /\ UNCHANGED <<mrQueue, _values, _serial_open, maestro, link, lastSent>>

\* mutant: control_request without the check for a current holder
ControlRequest_AlwaysGrant(c) ==
    /\ remote_controller' = c
    /\ sent' = <<Reply(c, "control_request", TRUE)>>
    /\ active' = active \cup {c}
    /\ lastOp' = Op("control_request", c, "Success!")
    /\ written' = <<>>
    /\ UNCHANGED <<mrQueue, _values, _serial_open, maestro, link, lastSent>>

\* mutant: a denied control_request also tells the holder
ControlRequest_NotifyHolder(c) ==
    /\ IF ~Truthy(remote_controller)
       THEN /\ remote_controller' = c
            /\ sent' = <<Reply(c, "control_request", TRUE)>>
       ELSE /\ remote_controller' = remote_controller
            /\ sent' = <<Reply(c, "control_request", FALSE),
                         Reply(remote_controller, "control_request", FALSE)>>
    /\ active' = IF \E i \in DOMAIN sent' : sent'[i].to = c /\ sent'[i].data
                 THEN active \cup {c} ELSE active
    /\ lastOp' = Op("control_request", c,
                  IF ~Truthy(remote_controller) THEN "Success!"
                  ELSE "No, we're already being remote controlled!")
    /\ written' = <<>>
    /\ UNCHANGED <<mrQueue, _values, _serial_open, maestro, link, lastSent>>

ControlRequest(c) ==
    /\ IF ~Truthy(remote_controller)
       THEN /\ remote_controller' = c
            /\ sent' = <<Reply(c, "control_request", TRUE)>>
       ELSE /\ remote_controller' = remote_controller
            /\ sent' = <<Reply(c, "control_request", FALSE)>>
    /\ active' = IF \E i \in DOMAIN sent' : sent'[i].to = c /\ sent'[i].data
                 THEN active \cup {c} ELSE active
    /\ lastOp' = Op("control_request", c,
                  IF ~Truthy(remote_controller) THEN "Success!"
                  ELSE "No, we're already being remote controlled!")
    /\ written' = <<>>
    /\ UNCHANGED <<mrQueue, _values, _serial_open, maestro, link, lastSent>>

\* mutant: control_release tests that somebody holds control, not who
ControlRelease_Any(c) ==
    /\ IF Truthy(remote_controller)
       THEN /\ remote_controller' = None
            /\ sent' = <<Reply(c, "control_release", TRUE)>>
       ELSE /\ remote_controller' = remote_controller
            /\ sent' = <<>>
    /\ active' = active \ {c}
    /\ lastOp' = Op("control_release", c,
                  IF Truthy(remote_controller) THEN "Client leaves control!" ELSE None)
    /\ written' = <<>>
    /\ UNCHANGED <<mrQueue, _values, _serial_open, maestro, link, lastSent>>

\* mutant: the holder's release resets the Control State and writes a neutral
\* machine frame
ControlRelease_Neutralize(c) ==
    /\ IF remote_controller = c
       THEN /\ remote_controller' = None
            /\ sent' = <<Reply(c, "control_release", TRUE)>>
            /\ _values' = InitValues
            /\ written' = HandleServo(_serial_open, maestro, _machine_channel, 0)
       ELSE /\ remote_controller' = remote_controller
            /\ sent' = <<>>
            /\ _values' = _values
            /\ written' = <<>>
    /\ active' = active \ {c}
    /\ lastOp' = Op("control_release", c,
                  IF remote_controller = c THEN "Client leaves control!" ELSE None)
    /\ lastSent' = RecordFrames(lastSent, written')
    /\ UNCHANGED <<mrQueue, _serial_open, maestro, link>>

ControlRelease(c) ==
    /\ IF remote_controller = c
       THEN /\ remote_controller' = None
            /\ sent' = <<Reply(c, "control_release", TRUE)>>
       ELSE /\ remote_controller' = remote_controller
            /\ sent' = <<>>
    /\ active' = active \ {c}
    /\ lastOp' = Op("control_release", c,
                  IF remote_controller = c THEN "Client leaves control!" ELSE None)
    /\ written' = <<>>
    /\ UNCHANGED <<mrQueue, _values, _serial_open, maestro, link, lastSent>>

\* mutant: data without the check that the sender holds control
Data_NoGate(c, control_data) ==
    /\ Len(mrQueue) < MaxQueue
    /\ mrQueue' = Append(mrQueue, control_data)
    /\ sent' = <<>>
    /\ lastOp' = Op("data", c, "Valid data, handing on to machineroom.")
    /\ written' = <<>>
    /\ UNCHANGED <<remote_controller, active, _values, _serial_open, maestro,
                   link, lastSent>>

Data(c, control_data) ==
    /\ IF c = remote_controller
       THEN /\ Len(mrQueue) < MaxQueue
            /\ mrQueue' = Append(mrQueue, control_data)
       ELSE mrQueue' = mrQueue
    /\ sent' = <<>>
    /\ lastOp' = Op("data", c,
                  IF c = remote_controller THEN "Valid data, handing on to machineroom."
                  ELSE "Invalid control data update request!")
    /\ written' = <<>>
    /\ UNCHANGED <<remote_controller, active, _values, _serial_open, maestro,
                   link, lastSent>>

-----------------------------------------------------------------------------
(* Machineroom handlers *)

Opened ==
    /\ link # "open"
    /\ link' = "open"
    /\ _serial_open' = TRUE
    /\ written' =
           (IF ~maestro
            THEN SendCommand(TRUE, maestro, hello_on) \o SendCommand(TRUE, maestro, version)
            ELSE <<>>)
           \o HandleServo(TRUE, maestro, _machine_channel, 0)
           \o HandleServo(TRUE, maestro, _rudder_channel, 127)
           \o SetDigitalPin(TRUE, maestro, _pump_channel, 0)
           \o (IF ~maestro
               THEN SendCommand(TRUE, maestro, hello_off) \o SendCommand(TRUE, maestro, greeting)
               ELSE <<>>)
    /\ lastSent' = RecordFrames(lastSent, written')
    /\ lastOp' = Op("opened", None, None)
    /\ sent' = <<>>
    /\ UNCHANGED <<remote_controller, active, mrQueue, _values, maestro>>

\* The port reports that the link is closed.  Machineroom registers no
\* handler for it: nothing of the component changes.
Closed ==
    /\ link = "open"
    /\ link' = "closed"
    /\ written' = <<>>
    /\ lastOp' = Op("closed", None, None)
    /\ sent' = <<>>
    /\ UNCHANGED <<remote_controller, active, mrQueue, _values, _serial_open,
                   maestro, lastSent>>

OnControlUpdate ==
    /\ mrQueue # <<>>
    /\ LET st == ControlUpdate(_values, Head(mrQueue), _serial_open, maestro)
       IN  /\ _values' = st.vals
           /\ written' = st.out
    /\ mrQueue' = Tail(mrQueue)
    /\ lastSent' = RecordFrames(lastSent, written')
    /\ lastOp' = Op("control_update", None, None)
    /\ sent' = <<>>
    /\ UNCHANGED <<remote_controller, active, _serial_open, maestro, link>>

OnMachineRequest(controlvalue) ==
    /\ IF ServoRaises(maestro, controlvalue)
       THEN written' = <<>> /\ _values' = _values
       ELSE /\ written' = HandleServo(_serial_open, maestro, _machine_channel, controlvalue)
            /\ _values' = DictSet(_values, "machine", controlvalue)
    /\ lastSent' = RecordFrames(lastSent, written')
    /\ lastOp' = Op("machine", None, None)
    /\ sent' = <<>>
    /\ UNCHANGED <<remote_controller, active, mrQueue, _serial_open, maestro, link>>

OnRudderRequest(controlvalue) ==
    /\ IF ServoRaises(maestro, controlvalue)
       THEN written' = <<>> /\ _values' = _values
       ELSE /\ written' = HandleServo(_serial_open, maestro, _rudder_channel, controlvalue)
            /\ _values' = DictSet(_values, "rudder", controlvalue)
    /\ lastSent' = RecordFrames(lastSent, written')
    /\ lastOp' = Op("rudder", None, None)
    /\ sent' = <<>>
    /\ UNCHANGED <<remote_controller, active, mrQueue, _serial_open, maestro, link>>

OnPumpRequest(controlvalue) ==
    /\ written' = SetDigitalPin(_serial_open, maestro, _pump_channel, controlvalue)
    /\ _values' = DictSet(_values, "pump", controlvalue)
    /\ lastSent' = RecordFrames(lastSent, written')
    /\ lastOp' = Op("pump", None, None)
    /\ sent' = <<>>
    /\ UNCHANGED <<remote_controller, active, mrQueue, _serial_open, maestro, link>>

Read ==
    /\ link = "open"
    /\ lastOp' = Op("read", None, None)
    /\ written' = <<>>
    /\ sent' = <<>>
    /\ UNCHANGED <<remote_controller, active, mrQueue, _values, _serial_open,
                   maestro, link, lastSent>>

OnPing(r) ==
    /\ written' = IF ServoRaises(maestro, r) THEN <<>>
                  ELSE HandleServo(_serial_open, maestro, _rudder_channel, r)
    /\ lastSent' = RecordFrames(lastSent, written')
    /\ lastOp' = Op("ping", None, None)
    /\ sent' = <<>>
    /\ UNCHANGED <<remote_controller, active, mrQueue, _values, _serial_open,
                   maestro, link>>

-----------------------------------------------------------------------------

\* Data from a client that does not hold control is dropped without its payload
\* being read: one payload stands for all of them.
AnyData == CHOOSE d \in ControlData : TRUE

DataInputs(c) == IF c = remote_controller THEN ControlData ELSE {AnyData}

Next ==
    \/ \E c \in Clients : ClientDisconnect(c)
    \/ \E c \in Clients : ControlRequest(c)
    \/ \E c \in Clients : ControlRelease(c)
    \/ \E c \in Clients : \E control_data \in DataInputs(c) : Data(c, control_data)
    \/ Opened
    \/ Closed
    \/ OnControlUpdate
    \/ \E v \in DirectValues : OnMachineRequest(v)
    \/ \E v \in DirectValues : OnRudderRequest(v)
    \/ \E v \in DirectValues : OnPumpRequest(v)
    \/ Read
    \/ \E r \in PingValues : OnPing(r)

Spec == Init /\ [][Next]_vars

-----------------------------------------------------------------------------
(* Session arbitration (rcmanager.py) *)

Granted(c) == <<Reply(c, "control_request", TRUE)>>
Denied(c) == <<Reply(c, "control_request", FALSE)>>
Released(c) == <<Reply(c, "control_release", TRUE)>>

C1_Holder ==
    /\ remote_controller \in Clients \cup {None}
    /\ remote_controller # None => remote_controller \in active

C1_Step ==
    lastOp'.op = "control_request" =>
        LET c == lastOp'.client
        IN  /\ remote_controller = None =>
                remote_controller' = c /\ sent' = Granted(c)
            /\ remote_controller \notin {None, c} =>
                remote_controller' = remote_controller /\ sent' = Denied(c)

\* C1: a control_request by c while nobody holds control makes c the holder
\* and replies granted to c; while another client d holds control it leaves d
\* the holder and replies denied to c.  In every reachable state the holder is
\* None or one client, and that client was granted control and has not since
\* released or disconnected.
C1_Arbitration == [][C1_Step]_vars /\ []C1_Holder

C1_Witness ==
    /\ lastOp = Op("control_request", "B", "No, we're already being remote controlled!")
    /\ remote_controller = "A"
    /\ sent = Denied("B")

\* C2: a control_request by the client that already holds control is answered
\* granted and leaves it the holder.
C2_IdempotentGrant ==
    [][ (lastOp'.op = "control_request" /\ remote_controller = lastOp'.client) =>
            /\ remote_controller' = remote_controller
            /\ sent' = Granted(lastOp'.client) ]_vars

\* C3: a data event from c fires a control_update to the machineroom exactly
\* when c holds control as the event is handled; otherwise nothing is fired.
\* Either way no reply is sent and the holder stays.
C3_DataGating ==
    [][ lastOp'.op = "data" =>
            /\ IF lastOp'.client = remote_controller
               THEN \E d \in ControlData : mrQueue' = Append(mrQueue, d)
               ELSE mrQueue' = mrQueue
            /\ sent' = <<>>
            /\ remote_controller' = remote_controller ]_vars

C3_Witness ==
    /\ lastOp = Op("data", "B", "Invalid control data update request!")
    /\ remote_controller = "A"
    /\ mrQueue = <<>>
    /\ sent = <<>>

\* C4: a control_release by c clears the holder and replies released to c
\* exactly when c holds control; a release by anyone else changes nothing and
\* sends nothing.
C4_Release ==
    [][ lastOp'.op = "control_release" =>
            LET c == lastOp'.client
            IN  /\ IF remote_controller = c
                   THEN remote_controller' = None /\ sent' = Released(c)
                   ELSE remote_controller' = remote_controller /\ sent' = <<>>
                /\ UNCHANGED <<mrQueue, _values, _serial_open, maestro>> ]_vars

C4_Witness ==
    /\ lastOp = Op("control_release", "B", None)
    /\ remote_controller = "A"
    /\ sent = <<>>

\* C5: the disconnect of the holder clears the holder and sends nothing, the
\* holder then stays None until the next control_request, and that request is
\* granted whoever makes it; the disconnect of any other client leaves the
\* holder as it is.
C5_Disconnect ==
    [][ /\ lastOp'.op = "clientdisconnect" =>
              /\ remote_controller' =
                     IF lastOp'.client = remote_controller THEN None
                     ELSE remote_controller
              /\ sent' = <<>>
        /\ (remote_controller = None /\ lastOp'.op # "control_request") =>
              remote_controller' = None
        /\ (remote_controller = None /\ lastOp'.op = "control_request") =>
              /\ remote_controller' = lastOp'.client
              /\ sent' = Granted(lastOp'.client) ]_vars

C5_Witness ==
    /\ lastOp.op = "clientdisconnect"
    /\ lastOp.note = "Remote controller disconnected!"
    /\ remote_controller = None
    /\ sent = <<>>

-----------------------------------------------------------------------------
(* Machineroom (machineroom.py) *)

\* the frames of the startup neutralization in compact mode:
\* machine = 0, rudder = 127, pump = 0
StartupFrames == << <<255, 1, 0>>, <<255, 0, 127>>, <<255, 2, 0>> >>

\* the control update the next on_control_update run handles
NextUpdate == Head(mrQueue)

HasBadAxis(controldata) ==
    \E k \in DOMAIN controldata.axes :
        controldata.axes[k] < -RawDen \/ controldata.axes[k] > RawDen

\* C6: a control update with any axis value outside [-1, 1] is discarded as a
\* whole: handled with the link open, it writes no frame and changes no entry
\* of _values.
C6_AllOrNothing ==
    [][ (/\ lastOp'.op = "control_update"
         /\ mrQueue # <<>>
         /\ HasBadAxis(NextUpdate)
         /\ _serial_open) =>
            /\ written' = <<>>
            /\ _values' = _values ]_vars

\* C7: every opened event writes exactly the three startup frames, in the
\* order machine, rudder, pump, whatever control updates are waiting; and
\* until the first opened event nothing is written to the transport, so no
\* frame of a control update comes before them.
C7_StartupFirst ==
    /\ lastOp.op = "opened" => written = StartupFrames
    /\ link = "never" => written = <<>> /\ lastSent = <<>>

C7_Witness ==
    /\ lastOp.op = "opened"
    /\ mrQueue # <<>>
    /\ written = StartupFrames
    /\ \E k \in DOMAIN _values : _values[k] # 0

\* C8: with the link open, a control update writes a frame for a channel only
\* when its value differs from the value last sent on that channel.
C8_SendOnChange ==
    [][ (lastOp'.op = "control_update" /\ _serial_open /\ link = "open") =>
            \A i \in DOMAIN written' :
                LET channel == written'[i][2]
                    value == written'[i][3]
                IN  channel \in DOMAIN lastSent => lastSent[channel] # value ]_vars

\* C9: a control update handled while _serial_open is false writes no frame
\* and leaves _values as it was.
C9_ClosedKeepsState ==
    [][ (lastOp'.op = "control_update" /\ ~_serial_open) =>
            /\ written' = <<>>
            /\ _values' = _values ]_vars

\* C10: from a closed event until the next opened event every send is a
\* no-op: no frame is written to the transport.
C10_ClosedSilent ==
    link = "closed" => written = <<>>

\* C11: in compact mode every frame written to the transport has exactly
\* three bytes, 255, a channel and a value byte in 0..255; a direct servo
\* request writes the value capped at 255, so machine = 300 gives [255, 1, 255].
C11_Frames ==
    maestro =>
        \A i \in DOMAIN written :
            /\ Len(written[i]) = 3
            /\ written[i][1] = 255
            /\ written[i][2] \in {0, 1, 2}
            /\ written[i][3] \in 0..255

C11_Step ==
    (maestro /\ _serial_open /\ lastOp'.op \in {"machine", "rudder"}) =>
        LET name == lastOp'.op
            value == _values'[name]
        IN  written' = << <<255, targets[name], IF value > 255 THEN 255 ELSE value>> >>

C11_Framing == []C11_Frames /\ [][C11_Step]_vars

C11_Witness ==
    /\ lastOp.op = "machine"
    /\ "machine" \in DOMAIN _values
    /\ _values["machine"] = 300
    /\ written = << <<255, 1, 255>> >>

------------------------------------------------------------------------------
(* Delimited protocol (machineroom.py, maestro false) *)

\* The component built with the mode flag false: machineroom.py:141 is the one
\* assignment that selects the protocol.
InitDelimited ==
    /\ remote_controller = None
    /\ sent = <<>>
    /\ mrQueue = <<>>
    /\ _values = InitValues
    /\ _serial_open = FALSE
    /\ maestro = FALSE
    /\ written = <<>>
    /\ lastOp = Op("init", None, None)
    /\ link = "never"
    /\ lastSent = <<>>
    /\ active = {}

SpecDelimited == InitDelimited /\ [][Next]_vars

\* 's' ',' channel ',' value CR and 'p' ',' pin ',' mode CR
DelimitedServo(channel, value) == <<115, 44, channel, 44, value, 13>>
DelimitedPin(p, mode) == <<112, 44, p, 44, mode, 13>>

C12_Step ==
    ~maestro =>
        /\ lastOp'.op = "opened" =>
               \E i, j, k \in DOMAIN written' :
                   /\ i < j /\ j < k
                   /\ written'[i] = DelimitedServo(1, 0)
                   /\ written'[j] = DelimitedServo(0, 127)
                   /\ written'[k] = DelimitedPin(2, 0)
        /\ (_serial_open /\ lastOp'.op = "pump") =>
               written' = << DelimitedPin(2, IF _values'["pump"] >= 127 THEN 255 ELSE 0) >>

------------------------------------------------------------------------------
(* Reply addressing (rcmanager.py) *)

\* C13: every message the manager sends goes to the client whose
\* control_request or control_release is being handled; data events and
\* disconnects send nothing, and nobody else (the holder included) is told of
\* a denied request.
C13_ReplyAddressing ==
    /\ \A i \in DOMAIN sent :
           /\ lastOp.op \in {"control_request", "control_release"}
           /\ sent[i].to = lastOp.client
           /\ sent[i].action = lastOp.op
    /\ lastOp.op \in {"data", "clientdisconnect"} => sent = <<>>

\* A is denied while B holds control: the one message goes to A.
C13_Witness ==
    /\ lastOp.op = "control_request"
    /\ lastOp.client = "A"
    /\ remote_controller = "B"
    /\ Len(sent) = 1
    /\ sent[1].to = "A"
    /\ ~sent[1].data

------------------------------------------------------------------------------
(* Control State against the frames written (machineroom.py) *)

\* C14: the Control State has exactly the channels 0, 1, 2 as keys; for a
\* channel with a frame written it holds the value of the last frame written
\* for that channel (startup frames included), and 0 for a channel with none.
C14_TracksLastSent ==
    /\ DOMAIN _values = {IntKey(0), IntKey(1), IntKey(2)}
    /\ \A ch \in {0, 1, 2} :
           _values[IntKey(ch)] = IF ch \in DOMAIN lastSent THEN lastSent[ch] ELSE 0

------------------------------------------------------------------------------
(* Axis mapping of on_control_update over a grid of raw values *)

\* two queued updates carry raw values at most this many grid steps apart
MaxGap == 2

\* every raw value n / RawDen in [-1, 1]
AxisGrid == (-RawDen)..RawDen

\* a control update with both axes at n / RawDen and the button released
GridUpdate(n) == [axes |-> (1 :> n @@ 2 :> n), buttons |-> (3 :> 0)]

\* The link has been opened and the holder A has sent two updates, the second
\* with raw values not below the first's.
InitAxis ==
    /\ \E n1 \in AxisGrid : \E n2 \in AxisGrid :
           /\ n1 <= n2
           /\ n2 - n1 <= MaxGap
           /\ mrQueue = <<GridUpdate(n1), GridUpdate(n2)>>
    /\ remote_controller = "A"
    /\ active = {"A"}
    /\ sent = <<>>
    /\ _values = InitValues
    /\ _serial_open = TRUE
    /\ maestro = TRUE
    /\ written = <<>>
    /\ lastOp = Op("data", "A", "Valid data, handing on to machineroom.")
    /\ link = "open"
    /\ lastSent = RecordFrames(<<>>, StartupFrames)

NextAxis == OnControlUpdate

SpecAxis == InitAxis /\ [][NextAxis]_vars

Clamp(x) == IF x < 0 THEN 0 ELSE IF x > 255 THEN 255 ELSE x

\* t is raw * 128 with its fraction dropped, raw = n / RawDen
TowardZero(n, t) ==
    IF n >= 0
    THEN t >= 0 /\ t * RawDen <= n * 128 /\ n * 128 < (t + 1) * RawDen
    ELSE t <= 0 /\ t * RawDen >= n * 128 /\ n * 128 > (t - 1) * RawDen

\* r is an integer nearest to raw * 128 (either neighbour on a tie)
Nearest(n, r) ==
    /\ 2 * (r * RawDen - n * 128) <= RawDen
    /\ 2 * (n * 128 - r * RawDen) <= RawDen

\* the rudder (axis 2, plain) and machine (axis 1, inverted) values stored by
\* an update step are 128 + k and 128 - k, clamped
AxisValuesAre(k) ==
    /\ _values'[IntKey(0)] = Clamp(128 + k)
    /\ _values'[IntKey(1)] = Clamp(128 - k)

C16_Range ==
    lastOp.op = "control_update" =>
        /\ _values[IntKey(0)] \in 0..255
        /\ _values[IntKey(1)] \in 0..255

\* the second of the two updates, whose raw values are not below the first's
C16_Monotone ==
    (lastOp'.op = "control_update" /\ Len(mrQueue) = 1) =>
        /\ _values[IntKey(0)] <= _values'[IntKey(0)]
        /\ _values[IntKey(1)] >= _values'[IntKey(1)]

\* C16: for raw in [-1, 1] the computed value lies in 0..255; for a plain axis
\* raw1 <= raw2 gives value(raw1) <= value(raw2), for an inverted axis
\* value(raw1) >= value(raw2).
C16_RangeMonotone == []C16_Range /\ [][C16_Monotone]_vars

\* raw = 1 after raw = 511/512: the rudder stays at 255 (256, capped) and the
\* machine goes from 1 to 0
C16_Witness ==
    /\ lastOp.op = "control_update"
    /\ mrQueue = <<>>
    /\ _values[IntKey(0)] = 255
    /\ _values[IntKey(1)] = 0
    /\ lastSent[0] = 255
    /\ written = << <<255, 1, 0>> >>

------------------------------------------------------------------------------
(* Digital pin encoding (machineroom.py, _set_digital_pin) *)

\* every byte value as a pump request
PinValues == 0..ByteMax

NextPin ==
    \/ Opened
    \/ \E v \in PinValues : OnPumpRequest(v)

SpecPin == Init /\ [][NextPin]_vars

PinMode(value) == IF value < 127 THEN 0 ELSE 255

C17_AnyPin ==
    maestro =>
        \A p \in {0, 1, 2} : \A v \in 0..255 :
            SetDigitalPin(TRUE, maestro, p, v) = << <<255, p, PinMode(v)>> >>

C17_Step ==
    (maestro /\ lastOp'.op = "pump") =>
        written' = IF _serial_open THEN << <<255, 2, PinMode(_values'["pump"])>> >>
                   ELSE <<>>

\* C17: for every pin and every value in 0..255 the mode is 255 when
\* value >= 127 and 0 otherwise, and in compact mode the pin write goes out as
\* the servo frame [255, pin, mode], with no pin opcode.
C17_PinEncoding == []C17_AnyPin /\ [][C17_Step]_vars

\* the pump request 127, the lowest value that sets the pin high
C17_Witness ==
    /\ lastOp.op = "pump"
    /\ "pump" \in DOMAIN _values
    /\ _values["pump"] = 127
    /\ written = << <<255, 2, 255>> >>

------------------------------------------------------------------------------
(* Frames written by successive control updates *)

\* The link has just been opened; from here on lastSent counts the frames
\* written since, and only control updates write any.
InitUpdates ==
    /\ remote_controller = None
    /\ sent = <<>>
    /\ mrQueue = <<>>
    /\ _values = InitValues
    /\ _serial_open = TRUE
    /\ maestro = TRUE
    /\ written = StartupFrames
    /\ lastOp = Op("opened", None, None)
    /\ link = "open"
    /\ lastSent = <<>>
    /\ active = {}

\* no opened event and no direct request after the first opened
NextUpdates ==
    \/ \E c \in Clients : ClientDisconnect(c)
    \/ \E c \in Clients : ControlRequest(c)
    \/ \E c \in Clients : ControlRelease(c)
    \/ \E c \in Clients : \E control_data \in DataInputs(c) : Data(c, control_data)
    \/ OnControlUpdate

SpecUpdates == InitUpdates /\ [][NextUpdates]_vars

\* C18: with the link open, a frame written by a control update never equals
\* the frame a control update wrote before it for the same channel (no opened
\* event or direct request in between); pump button values 200 then 255 do
\* not write [255, 2, 255] twice.
C18_NoRepeat ==
    [][lastOp'.op = "control_update" =>
          \A i \in DOMAIN written' :
              written'[i][2] \in DOMAIN lastSent =>
                  written'[i] # <<255, written'[i][2], lastSent[written'[i][2]]>>]_vars

------------------------------------------------------------------------------
(* Session events and the actuators *)

SessionStep ==
    \/ lastOp'.op \in {"control_request", "control_release", "clientdisconnect"}
    \/ lastOp'.op = "data" /\ lastOp'.note = "Invalid control data update request!"

\* C19: handling a control_request, control_release, clientdisconnect or a
\* rejected data event writes no frame and leaves the Control State and the
\* link state as they were; a release or disconnect of the holder sends no
\* neutralizing frame.
C19_NoActuatorEffect ==
    [][SessionStep =>
          /\ written' = <<>>
          /\ mrQueue' = mrQueue
          /\ _values' = _values
          /\ _serial_open' = _serial_open
          /\ lastSent' = lastSent]_vars

\* the holder has released control with the machine at 129: nothing written,
\* the channel keeps its value
C19_Witness ==
    /\ lastOp.op = "control_release"
    /\ lastOp.note = "Client leaves control!"
    /\ remote_controller = None
    /\ _serial_open
    /\ written = <<>>
    /\ _values[IntKey(1)] = 129
    /\ 1 \in DOMAIN lastSent
    /\ lastSent[1] = 129

====
